---- MODULE Spec2Model ----
(***************************************************************************)
(* Authentication / session core of the mandarin web API:                  *)
(*   src/src/auth.rs      hash_password, verify_password, generate_tokens, *)
(*                        refresh_access_token, FromRequestParts for Claims*)
(*   src/src/handlers.rs  register_handler, login_handler, refresh_handler,*)
(*                        logout_handler, protected_handler,               *)
(*                        create_hieroglyph_handler                        *)
(*   src/src/errors.rs    the conversions of store and signing errors      *)
(*                                                                         *)
(* Every request is a call p.  A handler is cut at its .await points on    *)
(* the connection pool: one action per store operation, together with the  *)
(* synchronous code that follows it up to the next store operation.  The   *)
(* store (tables users, refresh_sessions, hieroglyphs) is the only shared  *)
(* state; calls of different requests interleave freely between actions.   *)
(* Time is counted in seconds.                                             *)
(***************************************************************************)
EXTENDS Naturals, FiniteSets, Sequences, TLC

VARIABLES
    users,        \* table users: id -> [nickname, password_hash, role]
    sessions,     \* table refresh_sessions: set of rows
    hieroglyphs,  \* table hieroglyphs: sequence of inserted rows
    now,          \* Utc::now(), in seconds
    calls,        \* calls[p]: the request p, its position and its locals
    jwt_secret,   \* the process environment: env::var("JWT_SECRET")
    deleted,      \* history: refresh tokens whose row a DELETE has removed
    loggedOut,    \* history: refresh tokens named by a completed logout
    user_progress,      \* table user_progress: set of rows, one per (user_id, content_type, content_id)
    user_achievements,  \* table user_achievements: set of rows
    test_results        \* table test_results: sequence of inserted rows

\* the tables of the learning content that belong to users
learning == <<user_progress, user_achievements, test_results>>

vars == <<users, sessions, hieroglyphs, now, calls, jwt_secret, deleted, loggedOut, learning>>

-----------------------------------------------------------------------------
(* Bounds of the model *)

MaxCalls == 3

Procs == 1..MaxCalls

-----------------------------------------------------------------------------
(* Program constants *)

ACCESS_TOKEN_EXPIRATION_MINUTES == 15
REFRESH_TOKEN_EXPIRATION_DAYS == 30

\* chrono::Duration::minutes / Duration::days, in seconds
Minutes(n) == n * 60
Days(n) == n * 24 * 60 * 60

\* jsonwebtoken's Validation::default(): validate_exp, with its default leeway
\* of 60 seconds
Leeway == 60

\* the value JWT_SECRET has in a configured environment; OtherSecret is any other key
JWT_SECRET == "server-secret"
OtherSecret == "other-secret"

UserRole == {"user", "admin"}

\* HTTP status codes used by the handlers
OK == 200
CREATED == 201
UNAUTHORIZED == 401
FORBIDDEN == 403
NOT_FOUND == 404
CONFLICT == 409
INTERNAL_SERVER_ERROR == 500

-----------------------------------------------------------------------------
(* Values *)

NoValue == [none |-> TRUE]

\* a value that is present (Ok(v), Some(v))
Some(v) == [some |-> v]

\* AppError::new(status_code, message) and the Ok responses
AppError(status, message) == [status |-> status, message |-> message]
Response(status, message) == [status |-> status, message |-> message]

\* errors.rs 36-52: what `?` makes of an sqlx::Error and of a jsonwebtoken error:
\* the error is logged, the response is 500 with a fixed message
FromSqlxError(err) == AppError(INTERNAL_SERVER_ERROR, "server error")
FromJwtError(err) == AppError(INTERNAL_SERVER_ERROR, "JWT error")

\* history: the store or signing operation of the call that failed
Failure(kind, at, err) == [kind |-> kind, at |-> at, detail |-> err]

\* A call that has not arrived yet
IdleCall ==
    [op |-> "none", pc |-> "idle", arg |-> NoValue, user_id |-> 0,
     expires_at |-> 0, claims |-> NoValue, result |-> NoValue,
     out |-> NoValue, created |-> {}, startedAfterDelete |-> FALSE,
     startedAfterLogout |-> FALSE, checkedAt |-> 0, failure |-> NoValue,
     removed |-> 0, correct_answers |-> {}]

\* The next request takes the lowest unused call number
NextCall(p) ==
    /\ calls[p].pc = "idle"
    /\ \A q \in Procs : q < p => calls[q].pc # "idle"

-----------------------------------------------------------------------------
(* Credential hasher: bcrypt as an ideal one-way hash of its key.  A        *)
(* password is the sequence of its bytes.  The salt and the cost are part  *)
(* of the hash value and verify recomputes with them; they are left out.   *)

\* passwords of the requests
pw123 == <<"p", "w", "1", "2", "3">>
wrong == <<"w", "r", "o", "n", "g">>

\* bcrypt::hash and bcrypt::verify key the cipher with the password followed by
\* a NUL byte, cut to its first 72 bytes
bcrypt_key(password) ==
    LET terminated == password \o <<"NUL">>
    IN  IF Len(terminated) > 72 THEN SubSeq(terminated, 1, 72) ELSE terminated

\* auth.rs 25-29: bcrypt::hash(password, DEFAULT_COST)
hash_password(password) == <<"bcrypt", bcrypt_key(password)>>

\* bcrypt::verify parses the stored hash first: a string that is not a bcrypt
\* hash is an error (auth.rs 33-35: 500), not a mismatch
WellFormed(hash) == hash[1] = "bcrypt"

\* a password_hash written to the users table by other means than hash_password
PlainHash(password) == <<"plain", password>>

\* auth.rs 32-36: bcrypt::verify(password, hash), for a hash that parses

verify_password(password, hash) == hash = hash_password(password)

-----------------------------------------------------------------------------
(* Access tokens: HS256 as an ideal MAC over the payload *)

Sign(secret, claims) == <<"HS256", secret, claims>>

\* jsonwebtoken::encode(&Header::default(), &claims, &EncodingKey::from_secret(..))
encode(claims, secret) == [claims |-> claims, sig |-> Sign(secret, claims)]

\* faulty variant: validate_exp switched off
ExpiredSignatureNever(claims, t) == FALSE

\* Validation::default(): exp is rejected only when exp < now - leeway
ExpiredSignature(claims, t) == claims.exp + Leeway < t

\* faulty variant: the payload decoded without verifying the signature
decodeUnverified(token, secret, t) ==
    IF token.claims.exp + Leeway < t THEN [ok |-> FALSE, err |-> "ExpiredSignature"]
    ELSE [ok |-> TRUE, claims |-> token.claims]

\* jsonwebtoken::decode::<Claims>(token, &DecodingKey::from_secret(..), &Validation::default())
decode(token, secret, t) ==
    IF token.sig # Sign(secret, token.claims) THEN [ok |-> FALSE, err |-> "InvalidSignature"]
    ELSE IF ExpiredSignature(token.claims, t) THEN [ok |-> FALSE, err |-> "ExpiredSignature"]
    ELSE [ok |-> TRUE, claims |-> token.claims]

\* env::var("JWT_SECRET").expect(..) on an unset variable: the request's task panics
Panic == [panic |-> "JWT_SECRET must be set"]

\* faulty variant: a token whose role is no longer the user's role is refused
from_request_partsCurrentRole(bearer, t) ==
    IF bearer = NoValue
    THEN [ok |-> FALSE, err |-> AppError(UNAUTHORIZED, "authorization token required")]
    ELSE LET token_data == decode(bearer, jwt_secret.some, t)
         IN  IF token_data.ok /\ users[token_data.claims.user_id].role = token_data.claims.role
             THEN [ok |-> TRUE, claims |-> token_data.claims]
             ELSE [ok |-> FALSE, err |-> AppError(UNAUTHORIZED, "invalid token")]

\* impl FromRequestParts for Claims: no bearer header -> 401; the secret is read
\* from the environment (auth.rs 125); decode fails -> 401
from_request_parts(bearer, t) ==
    IF bearer = NoValue
    THEN [ok |-> FALSE, err |-> AppError(UNAUTHORIZED, "authorization token required")]
    ELSE IF jwt_secret = NoValue
    THEN [ok |-> FALSE, err |-> Panic]
    ELSE LET token_data == decode(bearer, jwt_secret.some, t)
         IN  IF token_data.ok
             THEN [ok |-> TRUE, claims |-> token_data.claims]
             ELSE [ok |-> FALSE, err |-> AppError(UNAUTHORIZED, "invalid token")]

-----------------------------------------------------------------------------
(* Store queries *)

\* SELECT * FROM users WHERE nickname = $1
UsersByNickname(nickname) == {id \in DOMAIN users : users[id].nickname = nickname}

\* faulty variant: the WHERE clause lost: any row matches
SessionsByTokenAny(refresh_token) == sessions

\* SELECT user_id, expires_at FROM refresh_sessions WHERE refresh_token = $1
SessionsByToken(refresh_token) == {s \in sessions : s.refresh_token = refresh_token}

\* faulty variant: the DELETE removes nothing
DeleteSessionNothing(refresh_token) == sessions

\* faulty variant: the DELETE removes every session of the token's owner
DeleteSessionOfOwner(refresh_token) ==
    {s \in sessions : \A t \in SessionsByToken(refresh_token) : s.user_id # t.user_id}

\* DELETE FROM refresh_sessions WHERE refresh_token = $1
DeleteSession(refresh_token) == sessions \ SessionsByToken(refresh_token)

\* the history of deleted tokens after that DELETE
DeletedAfter(refresh_token) ==
    IF SessionsByToken(refresh_token) # {} THEN deleted \cup {refresh_token} ELSE deleted

\* faulty variant: a generator that repeats itself: every call draws the same token
NewRefreshTokenRepeated(p) == 1

\* rand::thread_rng().fill_bytes + hex::encode: a token no earlier call drew;
\* call p draws at most once, so its number names the token
NewRefreshToken(p) == p

\* What clients hold: the pairs that completed calls returned
Returned == {calls[p].out : p \in {q \in Procs : calls[q].out # NoValue}}
KnownRefreshTokens == {r.refresh_token : r \in Returned}
KnownAccessTokens == {r.access_token : r \in Returned}

\* a refresh token that was never issued
BogusToken == 0
RefreshInputs == KnownRefreshTokens \cup {BogusToken}

-----------------------------------------------------------------------------
Init ==
    /\ users = (1 :> [nickname |-> "alice", password_hash |-> hash_password(pw123), role |-> "user"])
            @@ (2 :> [nickname |-> "bob", password_hash |-> hash_password(pw123), role |-> "admin"])
    /\ sessions = {}
    /\ hieroglyphs = <<>>
    /\ now = 0
    /\ calls = [p \in Procs |-> IdleCall]
    /\ jwt_secret = Some(JWT_SECRET)
    /\ deleted = {}
    /\ loggedOut = {}
    /\ user_progress = {}
    /\ user_achievements = {}
    /\ test_results = <<>>

-----------------------------------------------------------------------------
(* auth::generate_tokens, entered from login_handler and refresh_access_token *)

\* faulty variant: the role not taken from the user row: every token gets the default role
AccessClaimsDefaultRole(user_id, role, t) ==
    [exp |-> t + Minutes(ACCESS_TOKEN_EXPIRATION_MINUTES), iat |-> t,
     user_id |-> user_id, role |-> "user"]

\* auth.rs 41-60: SELECT the user (fetch_one fails with a store error when the
\* user row is gone), build the Claims from its role, read the secret from the
\* environment (auth.rs 55: panics when it is unset) and sign the claims
AccessClaims(user_id, role, t) ==
    [exp |-> t + Minutes(ACCESS_TOKEN_EXPIRATION_MINUTES), iat |-> t,
     user_id |-> user_id, role |-> role]

GenerateTokensSelect(p) ==
    /\ calls[p].pc = "gen_select"
    /\ calls' = [calls EXCEPT ![p] =
          IF calls[p].user_id \notin DOMAIN users
          THEN [@ EXCEPT !.pc = "done",
                         !.result = FromSqlxError("RowNotFound"),
                         !.failure = Failure("store", "gen_select", "RowNotFound")]
          ELSE IF jwt_secret = NoValue
          THEN [@ EXCEPT !.pc = "panicked"]
          ELSE [@ EXCEPT !.pc = "gen_insert",
                         !.claims = AccessClaims(calls[p].user_id,
                                                 users[calls[p].user_id].role, now)]]
    /\ UNCHANGED <<learning, jwt_secret, users, sessions, hieroglyphs, now, deleted, loggedOut>>

\* faulty variant: the session given the lifetime of the access token
RefreshSessionRowShort(user_id, refresh_token, t) ==
    [user_id |-> user_id, refresh_token |-> refresh_token,
     expires_at |-> t + Minutes(ACCESS_TOKEN_EXPIRATION_MINUTES)]

\* auth.rs 66-74: the row of the INSERT (expires_at from the same `now` as the
\* claims, auth.rs 47)
RefreshSessionRow(user_id, refresh_token, t) ==
    [user_id |-> user_id, refresh_token |-> refresh_token,
     expires_at |-> t + Days(REFRESH_TOKEN_EXPIRATION_DAYS)]

\* faulty variant: the row inserted under a token other than the one returned
GenerateTokensInsertOther(p) ==
    /\ calls[p].pc = "gen_insert"
    /\ LET refresh_token == NewRefreshToken(p)
           other == NewRefreshToken(p) + MaxCalls
           row == RefreshSessionRow(calls[p].user_id, other, calls[p].claims.iat)
       IN  /\ sessions' = sessions \cup {row}
           /\ calls' = [calls EXCEPT ![p] =
                [@ EXCEPT !.pc = "done",
                          !.result = Response(OK, "tokens"),
                          !.created = {refresh_token},
                          !.out = [access_token |-> encode(calls[p].claims, jwt_secret.some),
                                   refresh_token |-> refresh_token]]]
    /\ UNCHANGED <<learning, jwt_secret, users, hieroglyphs, now, deleted, loggedOut>>

\* faulty variant: the pair returned without the INSERT
GenerateTokensInsertUnsaved(p) ==
    /\ calls[p].pc = "gen_insert"
    /\ LET refresh_token == NewRefreshToken(p)
       IN  calls' = [calls EXCEPT ![p] =
                [@ EXCEPT !.pc = "done",
                          !.result = Response(OK, "tokens"),
                          !.created = {refresh_token},
                          !.out = [access_token |-> encode(calls[p].claims, jwt_secret.some),
                                   refresh_token |-> refresh_token]]]
    /\ UNCHANGED <<learning, jwt_secret, users, sessions, hieroglyphs, now, deleted, loggedOut>>

\* auth.rs 62-76: draw the refresh token, INSERT the session row, return the pair
GenerateTokensInsert(p) ==
    /\ calls[p].pc = "gen_insert"
    /\ LET refresh_token == NewRefreshToken(p)
           row == RefreshSessionRow(calls[p].user_id, refresh_token, calls[p].claims.iat)
       IN  /\ sessions' = sessions \cup {row}
           /\ calls' = [calls EXCEPT ![p] =
                [@ EXCEPT !.pc = "done",
                          !.result = Response(OK, "tokens"),
                          !.created = {refresh_token},
                          !.out = [access_token |-> encode(calls[p].claims, jwt_secret.some),
                                   refresh_token |-> refresh_token]]]
    /\ UNCHANGED <<learning, jwt_secret, users, hieroglyphs, now, deleted, loggedOut>>

-----------------------------------------------------------------------------
(* handlers::register_handler *)

\* faulty variant: the lookup of the nickname left out
RegisterHandlerNoLookup(p, nickname, password) ==
    /\ NextCall(p)
    /\ calls' = [calls EXCEPT ![p] =
          [IdleCall EXCEPT !.op = "register", !.arg = <<nickname, password>>,
                           !.pc = "reg_insert"]]
    /\ UNCHANGED <<learning, jwt_secret, users, sessions, hieroglyphs, now, deleted, loggedOut>>

\* handlers.rs 22-32: SELECT id by nickname; a row -> 409; else hash the password
RegisterHandler(p, nickname, password) ==
    /\ NextCall(p)
    /\ LET start == [IdleCall EXCEPT !.op = "register", !.arg = <<nickname, password>>]
       IN  calls' = [calls EXCEPT ![p] =
             IF UsersByNickname(nickname) # {}
             THEN [start EXCEPT !.pc = "done",
                     !.result = AppError(CONFLICT, "nickname already registered")]
             ELSE [start EXCEPT !.pc = "reg_insert"]]
    /\ UNCHANGED <<learning, jwt_secret, users, sessions, hieroglyphs, now, deleted, loggedOut>>

\* the id the serial column gives the next row
NextUserId == 1 + Cardinality(DOMAIN users)

\* the row of INSERT INTO users (nickname, password_hash): id and role are the
\* column defaults
NewUser(nickname, password) ==
    [nickname |-> nickname, password_hash |-> hash_password(password), role |-> "user"]

\* handlers.rs 35-41: INSERT the row, 201
RegisterInsert(p) ==
    /\ calls[p].pc = "reg_insert"
    /\ users' = users @@ (NextUserId :> NewUser(calls[p].arg[1], calls[p].arg[2]))
    /\ calls' = [calls EXCEPT ![p] =
          [@ EXCEPT !.pc = "done", !.result = Response(CREATED, "registered")]]
    /\ UNCHANGED <<learning, jwt_secret, sessions, hieroglyphs, now, deleted, loggedOut>>

\* handlers.rs 35-39 where the nickname column is unique and another request
\* has inserted the nickname since the lookup: the INSERT fails, 500 (errors.rs 36-44)
RegisterInsertConflict(p) ==
    /\ calls[p].pc = "reg_insert"
    /\ UsersByNickname(calls[p].arg[1]) # {}
    /\ calls' = [calls EXCEPT ![p] =
          [@ EXCEPT !.pc = "done",
                    !.result = FromSqlxError("Database"),
                    !.failure = Failure("store", "reg_insert", "Database")]]
    /\ UNCHANGED <<learning, jwt_secret, users, sessions, hieroglyphs, now, deleted, loggedOut>>

-----------------------------------------------------------------------------
(* handlers::login_handler *)

\* faulty variant: an unknown nickname answered with a message of its own
LoginHandlerTelling(p, nickname, password) ==
    /\ NextCall(p)
    /\ LET found == UsersByNickname(nickname)
           start == [IdleCall EXCEPT !.op = "login", !.arg = <<nickname, password>>]
       IN  calls' = [calls EXCEPT ![p] =
             IF found = {}
             THEN [start EXCEPT !.pc = "done",
                     !.result = AppError(UNAUTHORIZED, "no such user")]
             ELSE LET id == CHOOSE i \in found : TRUE
                  IN  IF ~WellFormed(users[id].password_hash)
                      THEN [start EXCEPT !.pc = "done",
                              !.result = AppError(INTERNAL_SERVER_ERROR, "password check failed")]
                      ELSE IF ~verify_password(password, users[id].password_hash)
                      THEN [start EXCEPT !.pc = "done",
                              !.result = AppError(UNAUTHORIZED, "wrong nickname or password")]
                      ELSE [start EXCEPT !.pc = "gen_select", !.user_id = id]]
    /\ UNCHANGED <<learning, jwt_secret, users, sessions, hieroglyphs, now, deleted, loggedOut>>

\* faulty variant: a wrong password let through to the issuance
LoginHandlerLenient(p, nickname, password) ==
    /\ NextCall(p)
    /\ LET found == UsersByNickname(nickname)
           start == [IdleCall EXCEPT !.op = "login", !.arg = <<nickname, password>>]
       IN  calls' = [calls EXCEPT ![p] =
             IF found = {}
             THEN [start EXCEPT !.pc = "done",
                     !.result = AppError(UNAUTHORIZED, "wrong nickname or password")]
             ELSE LET id == CHOOSE i \in found : TRUE
                  IN  [start EXCEPT !.pc = "gen_select", !.user_id = id]]
    /\ UNCHANGED <<learning, jwt_secret, users, sessions, hieroglyphs, now, deleted, loggedOut>>

\* handlers.rs 51-63: SELECT the user by nickname, verify the password, issue
LoginHandler(p, nickname, password) ==
    /\ NextCall(p)
    /\ LET found == UsersByNickname(nickname)
           start == [IdleCall EXCEPT !.op = "login", !.arg = <<nickname, password>>]
       IN  calls' = [calls EXCEPT ![p] =
             IF found = {}
             THEN [start EXCEPT !.pc = "done",
                     !.result = AppError(UNAUTHORIZED, "wrong nickname or password")]
             ELSE LET id == CHOOSE i \in found : TRUE
                  IN  IF ~WellFormed(users[id].password_hash)
                      THEN [start EXCEPT !.pc = "done",
                              !.result = AppError(INTERNAL_SERVER_ERROR, "password check failed")]
                      ELSE IF ~verify_password(password, users[id].password_hash)
                      THEN [start EXCEPT !.pc = "done",
                              !.result = AppError(UNAUTHORIZED, "wrong nickname or password")]
                      ELSE [start EXCEPT !.pc = "gen_select", !.user_id = id]]
    /\ UNCHANGED <<learning, jwt_secret, users, sessions, hieroglyphs, now, deleted, loggedOut>>

-----------------------------------------------------------------------------
(* auth::refresh_access_token, called by handlers::refresh_handler *)

\* auth.rs 82-90: SELECT the session row by token; none -> 401
RefreshLookup(p, refresh_token) ==
    /\ NextCall(p)
    /\ LET found == SessionsByToken(refresh_token)
           start == [IdleCall EXCEPT !.op = "refresh", !.arg = refresh_token,
                        !.startedAfterDelete = (refresh_token \in deleted),
                        !.startedAfterLogout = (refresh_token \in loggedOut)]
       IN  calls' = [calls EXCEPT ![p] =
             IF found = {}
             THEN [start EXCEPT !.pc = "done",
                     !.result = AppError(UNAUTHORIZED, "invalid refresh token")]
             ELSE LET session == CHOOSE s \in found : TRUE
                  IN  [start EXCEPT !.pc = "rotate", !.user_id = session.user_id,
                                    !.expires_at = session.expires_at]]
    /\ UNCHANGED <<learning, jwt_secret, users, sessions, hieroglyphs, now, deleted, loggedOut>>

\* faulty variant: the comparison made inclusive
SessionExpiredInclusive(t, expires_at) == t >= expires_at

\* auth.rs 93: Utc::now() > expires_at
SessionExpired(t, expires_at) == t > expires_at

\* faulty variant: the expired row left in place
RefreshRotateNoCleanup(p) ==
    /\ calls[p].pc = "rotate"
    /\ IF now > calls[p].expires_at
       THEN /\ calls' = [calls EXCEPT ![p] =
                  [@ EXCEPT !.pc = "done", !.checkedAt = now,
                            !.result = AppError(UNAUTHORIZED, "session expired")]]
            /\ UNCHANGED <<sessions, deleted>>
       ELSE /\ calls' = [calls EXCEPT ![p] =
                  [@ EXCEPT !.pc = "gen_select", !.checkedAt = now,
                            !.removed = Cardinality(SessionsByToken(calls[p].arg))]]
            /\ sessions' = {s \in sessions : s.refresh_token # calls[p].arg}
            /\ deleted' = deleted \cup {calls[p].arg}
    /\ UNCHANGED <<learning, jwt_secret, users, hieroglyphs, now, loggedOut>>

\* faulty variant: the row of a session that has not expired left in place
RefreshRotateKeepsRow(p) ==
    /\ calls[p].pc = "rotate"
    /\ IF SessionExpired(now, calls[p].expires_at)
       THEN /\ sessions' = DeleteSession(calls[p].arg)
            /\ deleted' = DeletedAfter(calls[p].arg)
            /\ calls' = [calls EXCEPT ![p] =
                  [@ EXCEPT !.pc = "done", !.checkedAt = now,
                            !.removed = Cardinality(SessionsByToken(calls[p].arg)),
                            !.result = AppError(UNAUTHORIZED, "session expired")]]
       ELSE /\ calls' = [calls EXCEPT ![p] = [@ EXCEPT !.pc = "gen_select", !.checkedAt = now]]
            /\ UNCHANGED <<sessions, deleted>>
    /\ UNCHANGED <<learning, jwt_secret, users, hieroglyphs, now, loggedOut>>

\* auth.rs 93-103: expired -> DELETE and 401; else DELETE and go on to generate_tokens
RefreshRotate(p) ==
    /\ calls[p].pc = "rotate"
    /\ sessions' = DeleteSession(calls[p].arg)
    /\ deleted' = DeletedAfter(calls[p].arg)
    /\ calls' = [calls EXCEPT ![p] =
          IF SessionExpired(now, calls[p].expires_at)
          THEN [@ EXCEPT !.pc = "done", !.checkedAt = now,
                         !.removed = Cardinality(SessionsByToken(calls[p].arg)),
                         !.result = AppError(UNAUTHORIZED, "session expired")]
          ELSE [@ EXCEPT !.pc = "gen_select", !.checkedAt = now,
                         !.removed = Cardinality(SessionsByToken(calls[p].arg))]]
    /\ UNCHANGED <<learning, jwt_secret, users, hieroglyphs, now, loggedOut>>

-----------------------------------------------------------------------------
(* handlers::logout_handler *)

\* faulty variant: a logout that finds no row fails
LogoutHandlerStrict(p, refresh_token) ==
    /\ NextCall(p)
    /\ sessions' = DeleteSession(refresh_token)
    /\ deleted' = DeletedAfter(refresh_token)
    /\ loggedOut' = loggedOut \cup {refresh_token}
    /\ calls' = [calls EXCEPT ![p] =
          [IdleCall EXCEPT !.op = "logout", !.arg = refresh_token, !.pc = "done",
                           !.removed = Cardinality(SessionsByToken(refresh_token)),
                           !.result = IF SessionsByToken(refresh_token) = {}
                                      THEN AppError(UNAUTHORIZED, "invalid refresh token")
                                      ELSE Response(OK, "logged out")]]
    /\ UNCHANGED <<learning, jwt_secret, users, hieroglyphs, now>>

\* handlers.rs 83-88: DELETE the row of the token, 200 whatever the DELETE removed
LogoutHandler(p, refresh_token) ==
    /\ NextCall(p)
    /\ sessions' = DeleteSession(refresh_token)
    /\ deleted' = DeletedAfter(refresh_token)
    /\ loggedOut' = loggedOut \cup {refresh_token}
    /\ calls' = [calls EXCEPT ![p] =
          [IdleCall EXCEPT !.op = "logout", !.arg = refresh_token, !.pc = "done",
                           !.removed = Cardinality(SessionsByToken(refresh_token)),
                           !.result = Response(OK, "logged out")]]
    /\ UNCHANGED <<learning, jwt_secret, users, hieroglyphs, now>>

-----------------------------------------------------------------------------
(* Environment *)

\* The instants at which the clock is read: the start and, for a refresh
\* session created at the start, the last second at which it is still accepted
\* and the next; the same for an access token issued at the start
RefreshInstants ==
    LET refresh == Days(REFRESH_TOKEN_EXPIRATION_DAYS)
    IN  {0, refresh, refresh + 1}

AccessInstants ==
    LET access == Minutes(ACCESS_TOKEN_EXPIRATION_MINUTES)
    IN  {0, access + Leeway, access + Leeway + 1}

\* time passes
Tick(t) ==
    /\ t > now
    /\ now' = t
    /\ UNCHANGED <<learning, jwt_secret, users, sessions, hieroglyphs, calls, deleted, loggedOut>>

\* the role column of a user row is updated outside the core
\* (tests.rs 151 writes it directly; register leaves it to the column default)
SetRole(id, role) ==
    /\ id \in DOMAIN users
    /\ users[id].role # role
    /\ users' = [users EXCEPT ![id].role = role]
    /\ UNCHANGED <<learning, jwt_secret, sessions, hieroglyphs, now, calls, deleted, loggedOut>>

\* sqlx::Error values of a failing query
StoreErrors == {"PoolTimedOut", "Io"}

\* the first query of a handler fails (handlers.rs 22-25, 51-54, 83-86,
\* auth.rs 82-87): `?` returns 500 and the handler has changed nothing
FirstQueryFailure(p, op, err) ==
    /\ NextCall(p)
    /\ calls' = [calls EXCEPT ![p] =
          [IdleCall EXCEPT !.op = op, !.pc = "done",
                           !.result = FromSqlxError(err),
                           !.failure = Failure("store", "first", err)]]
    /\ UNCHANGED <<learning, jwt_secret, users, sessions, hieroglyphs, now, deleted, loggedOut>>

\* faulty variant: a refresh that fails puts the row of its token back
StoreFailureRestores(p, err) ==
    /\ calls[p].pc \in {"gen_select", "gen_insert", "rotate", "reg_insert"}
    /\ calls' = [calls EXCEPT ![p] =
          [@ EXCEPT !.pc = "done",
                    !.result = FromSqlxError(err),
                    !.failure = Failure("store", calls[p].pc, err)]]
    /\ sessions' = IF calls[p].op = "refresh"
                   THEN sessions \cup {[user_id |-> calls[p].user_id,
                                         refresh_token |-> calls[p].arg,
                                         expires_at |-> calls[p].expires_at]}
                   ELSE sessions
    /\ UNCHANGED <<learning, jwt_secret, users, hieroglyphs, now, deleted, loggedOut>>

\* a later query of a call fails: the SELECT or the INSERT of generate_tokens
\* (auth.rs 41-44, 69-74), the DELETE of refresh (auth.rs 95, 100-103), the
\* INSERT of register (handlers.rs 35-39): `?` returns 500
StoreFailure(p, err) ==
    /\ calls[p].pc \in {"gen_select", "gen_insert", "rotate", "reg_insert"}
    /\ calls' = [calls EXCEPT ![p] =
          [@ EXCEPT !.pc = "done",
                    !.result = FromSqlxError(err),
                    !.failure = Failure("store", calls[p].pc, err)]]
    /\ UNCHANGED <<learning, jwt_secret, users, sessions, hieroglyphs, now, deleted, loggedOut>>

\* auth.rs 41-60: the user is read, the secret is set, and encode fails: 500
SigningFailure(p, err) ==
    /\ calls[p].pc = "gen_select"
    /\ calls[p].user_id \in DOMAIN users
    /\ jwt_secret # NoValue
    /\ calls' = [calls EXCEPT ![p] =
          [@ EXCEPT !.pc = "done",
                    !.result = FromJwtError(err),
                    !.failure = Failure("sign", "encode", err)]]
    /\ UNCHANGED <<learning, jwt_secret, users, sessions, hieroglyphs, now, deleted, loggedOut>>

-----------------------------------------------------------------------------
(* Bearer tokens a client may present *)

\* the payload of a held token changed, the signature kept
Tampered(token) ==
    ( {[token EXCEPT !.claims.role = r] : r \in UserRole}
      \cup {[token EXCEPT !.claims.user_id = u] : u \in DOMAIN users}
      \cup {[token EXCEPT !.claims.exp = @ + Days(REFRESH_TOKEN_EXPIRATION_DAYS)],
            [token EXCEPT !.claims.iat = @ + 1]} ) \ {token}

\* a token signed with another secret, for the same payload or an admin payload
Forged(token) ==
    {encode(token.claims, OtherSecret),
     encode([token.claims EXCEPT !.role = "admin"], OtherSecret)}

BearerInputs ==
    {NoValue} \cup KnownAccessTokens
              \cup UNION {Tampered(token) \cup Forged(token) : token \in KnownAccessTokens}

-----------------------------------------------------------------------------
(* handlers::protected_handler *)

\* faulty variant: the rejection dropped and the handler's answer given
RejectionIgnored(start, err) == [start EXCEPT !.result = Response(OK, "protected resource")]

\* the extractor failed: its rejection is the response and the handler body does
\* not run; a panic ends the request's task without a response
Rejection(start, err) ==
    IF err = Panic THEN [start EXCEPT !.pc = "panicked"] ELSE [start EXCEPT !.result = err]

ProtectedHandler(p, bearer) ==
    /\ NextCall(p)
    /\ LET extracted == from_request_parts(bearer, now)
           start == [IdleCall EXCEPT !.op = "protected", !.arg = bearer,
                                     !.pc = "done", !.checkedAt = now]
       IN  calls' = [calls EXCEPT ![p] =
             IF ~extracted.ok
             THEN Rejection(start, extracted.err)
             ELSE [start EXCEPT !.claims = extracted.claims,
                                !.result = Response(OK, "protected resource")]]
    /\ UNCHANGED <<learning, jwt_secret, users, sessions, hieroglyphs, now, deleted, loggedOut>>

-----------------------------------------------------------------------------
(* handlers::create_hieroglyph_handler *)

\* INSERT INTO hieroglyphs (...) VALUES (...) RETURNING *
InsertHieroglyph(payload) == Append(hieroglyphs, [id |-> Len(hieroglyphs) + 1, character |-> payload])

\* faulty variant: the role check left out
RoleForbiddenNever(claims) == FALSE

\* handlers.rs 105: claims.role != UserRole::Admin
RoleForbidden(claims) == claims.role # "admin"

CreateHieroglyphHandler(p, bearer, payload) ==
    /\ NextCall(p)
    /\ LET extracted == from_request_parts(bearer, now)
           start == [IdleCall EXCEPT !.op = "create_hieroglyph", !.arg = bearer,
                                     !.pc = "done", !.checkedAt = now]
       IN  IF ~extracted.ok
           THEN /\ calls' = [calls EXCEPT ![p] = Rejection(start, extracted.err)]
                /\ UNCHANGED hieroglyphs
           ELSE IF RoleForbidden(extracted.claims)
           THEN /\ calls' = [calls EXCEPT ![p] =
                      [start EXCEPT !.claims = extracted.claims,
                                    !.result = AppError(FORBIDDEN, "access denied")]]
                /\ UNCHANGED hieroglyphs
           ELSE /\ calls' = [calls EXCEPT ![p] =
                      [start EXCEPT !.claims = extracted.claims,
                                    !.result = Response(CREATED, "hieroglyph")]]
                /\ hieroglyphs' = InsertHieroglyph(payload)
    /\ UNCHANGED <<learning, jwt_secret, users, sessions, now, deleted, loggedOut>>

-----------------------------------------------------------------------------
Nicknames == {"alice", "bob", "nobody"}
Passwords == {pw123, wrong}
Characters == {"ce4"}

(* The session protocol: login, refresh, logout, and the passing of time *)
Next ==
    \/ \E p \in Procs, nickname \in Nicknames, password \in Passwords :
          LoginHandler(p, nickname, password)
    \/ \E p \in Procs : GenerateTokensSelect(p)
    \/ \E p \in Procs : GenerateTokensInsert(p)
    \/ \E p \in Procs, t \in RefreshInputs : RefreshLookup(p, t)
    \/ \E p \in Procs : RefreshRotate(p)
    \/ \E p \in Procs, t \in RefreshInputs : LogoutHandler(p, t)
    \/ \E t \in RefreshInstants : Tick(t)

Spec == Init /\ [][Next]_vars

(* Access tokens: issuance by login and refresh, role changes, and requests *)
(* that present a bearer token                                              *)
NextAccess ==
    \/ \E p \in Procs : LoginHandler(p, "alice", pw123)
    \/ \E p \in Procs : GenerateTokensSelect(p)
    \/ \E p \in Procs : GenerateTokensInsert(p)
    \/ \E p \in Procs, t \in KnownRefreshTokens : RefreshLookup(p, t)
    \/ \E p \in Procs : RefreshRotate(p)
    \/ \E id \in UsersByNickname("alice"), role \in UserRole : SetRole(id, role)
    \/ \E p \in Procs, bearer \in BearerInputs : ProtectedHandler(p, bearer)
    \/ \E p \in Procs, bearer \in KnownAccessTokens, payload \in Characters :
          CreateHieroglyphHandler(p, bearer, payload)
    \/ \E t \in AccessInstants : Tick(t)

SpecAccess == Init /\ [][NextAccess]_vars

(* Accounts: registration, and login with the registered credentials *)
NewNicknames == {"alice", "carol"}

NextRegister ==
    \/ \E p \in Procs, nickname \in NewNicknames, password \in Passwords :
          RegisterHandler(p, nickname, password)
    \/ \E p \in Procs : RegisterInsert(p)
    \/ \E p \in Procs : RegisterInsertConflict(p)
    \/ \E p \in Procs, password \in Passwords : LoginHandler(p, "carol", password)
    \/ \E p \in Procs : GenerateTokensSelect(p)
    \/ \E p \in Procs : GenerateTokensInsert(p)

SpecRegister == Init /\ [][NextRegister]_vars

(* The life of an access token: issued by login or refresh, presented while *)
(* its session is logged out or rotated and the user's role changes          *)
NextRevoke ==
    \/ \E p \in Procs : LoginHandler(p, "alice", pw123)
    \/ \E p \in Procs : GenerateTokensSelect(p)
    \/ \E p \in Procs : GenerateTokensInsert(p)
    \/ \E p \in Procs, t \in KnownRefreshTokens : RefreshLookup(p, t)
    \/ \E p \in Procs : RefreshRotate(p)
    \/ \E p \in Procs, t \in KnownRefreshTokens : LogoutHandler(p, t)
    \/ \E id \in UsersByNickname("alice"), role \in UserRole : SetRole(id, role)
    \/ \E p \in Procs, bearer \in KnownAccessTokens : ProtectedHandler(p, bearer)
    \/ \E t \in AccessInstants : Tick(t)

SpecRevoke == Init /\ [][NextRevoke]_vars

(* Logins, good and bad, over a users table in which one row (dave) holds a *)
(* password_hash that is not a bcrypt hash                                  *)
InitLogin ==
    /\ users = (1 :> [nickname |-> "alice", password_hash |-> hash_password(pw123), role |-> "user"])
            @@ (2 :> [nickname |-> "bob", password_hash |-> hash_password(pw123), role |-> "admin"])
            @@ (3 :> [nickname |-> "dave", password_hash |-> PlainHash(pw123), role |-> "user"])
    /\ sessions = {}
    /\ hieroglyphs = <<>>
    /\ now = 0
    /\ calls = [p \in Procs |-> IdleCall]
    /\ jwt_secret = Some(JWT_SECRET)
    /\ deleted = {}
    /\ loggedOut = {}
    /\ user_progress = {}
    /\ user_achievements = {}
    /\ test_results = <<>>

LoginNicknames == {"alice", "dave", "nobody"}

NextLogin ==
    \/ \E p \in Procs, nickname \in LoginNicknames, password \in Passwords :
          LoginHandler(p, nickname, password)
    \/ \E p \in Procs : GenerateTokensSelect(p)
    \/ \E p \in Procs : GenerateTokensInsert(p)
    \/ \E p \in Procs, t \in KnownRefreshTokens : LogoutHandler(p, t)

SpecLogin == InitLogin /\ [][NextLogin]_vars

(* The credential hasher on its own: passwords are hashed, and passwords are *)
(* verified against the hashes made                                          *)
Block72 == [i \in 1..72 |-> "a"]
PasswordInputs == {pw123, wrong, Block72, Block72 \o <<"x">>, Block72 \o <<"y">>}

\* hash_password(password)
HashCall(p, password) ==
    /\ NextCall(p)
    /\ calls' = [calls EXCEPT ![p] =
          [IdleCall EXCEPT !.op = "hash", !.pc = "done", !.arg = password,
                           !.out = hash_password(password)]]
    /\ UNCHANGED <<learning, jwt_secret, users, sessions, hieroglyphs, now, deleted, loggedOut>>

\* verify_password(password, hash), for the hash that call q made
VerifyCall(p, password, q) ==
    /\ NextCall(p)
    /\ calls[q].op = "hash"
    /\ calls' = [calls EXCEPT ![p] =
          [IdleCall EXCEPT !.op = "verify", !.pc = "done", !.arg = <<password, q>>,
                           !.out = Some(verify_password(password, calls[q].out))]]
    /\ UNCHANGED <<learning, jwt_secret, users, sessions, hieroglyphs, now, deleted, loggedOut>>

NextHash ==
    \/ \E p \in Procs, password \in PasswordInputs : HashCall(p, password)
    \/ \E p, q \in Procs, password \in PasswordInputs : VerifyCall(p, password, q)

SpecHash == Init /\ [][NextHash]_vars

(* The process environment: the server is started with or without JWT_SECRET, *)
(* over a store that holds a session issued by an earlier run                 *)
EarlierRefreshToken == MaxCalls + 1
EarlierAccessToken == encode(AccessClaims(1, "user", 0), JWT_SECRET)

InitEnv ==
    /\ users = (1 :> [nickname |-> "alice", password_hash |-> hash_password(pw123), role |-> "user"])
            @@ (2 :> [nickname |-> "bob", password_hash |-> hash_password(pw123), role |-> "admin"])
    /\ sessions = {RefreshSessionRow(1, EarlierRefreshToken, 0)}
    /\ hieroglyphs = <<>>
    /\ now = 0
    /\ calls = [p \in Procs |-> IdleCall]
    /\ jwt_secret \in {Some(JWT_SECRET), NoValue}
    /\ deleted = {}
    /\ loggedOut = {}
    /\ user_progress = {}
    /\ user_achievements = {}
    /\ test_results = <<>>

NextEnv ==
    \/ \E p \in Procs, password \in Passwords : LoginHandler(p, "alice", password)
    \/ \E p \in Procs : GenerateTokensSelect(p)
    \/ \E p \in Procs : GenerateTokensInsert(p)
    \/ \E p \in Procs, t \in KnownRefreshTokens \cup {EarlierRefreshToken} : RefreshLookup(p, t)
    \/ \E p \in Procs : RefreshRotate(p)
    \/ \E p \in Procs, bearer \in {NoValue, EarlierAccessToken} : ProtectedHandler(p, bearer)

SpecEnv == InitEnv /\ [][NextEnv]_vars

(* Failures: queries that fail and signing that fails, in a process started *)
(* with or without JWT_SECRET                                                *)
StoreOps == {"register", "login", "refresh", "logout"}

NextFault ==
    \/ \E p \in Procs : RegisterHandler(p, "carol", pw123)
    \/ \E p \in Procs : RegisterInsert(p)
    \/ \E p \in Procs : RegisterInsertConflict(p)
    \/ \E p \in Procs : LoginHandler(p, "alice", pw123)
    \/ \E p \in Procs : GenerateTokensSelect(p)
    \/ \E p \in Procs : GenerateTokensInsert(p)
    \/ \E p \in Procs, t \in KnownRefreshTokens \cup {EarlierRefreshToken} : RefreshLookup(p, t)
    \/ \E p \in Procs : RefreshRotate(p)
    \/ \E p \in Procs, t \in KnownRefreshTokens \cup {EarlierRefreshToken} : LogoutHandler(p, t)
    \/ \E p \in Procs, op \in StoreOps, err \in StoreErrors : FirstQueryFailure(p, op, err)
    \/ \E p \in Procs, err \in StoreErrors : StoreFailure(p, err)
    \/ \E p \in Procs : SigningFailure(p, "InvalidKeyFormat")

SpecFault == InitEnv /\ [][NextFault]_vars

-----------------------------------------------------------------------------
(* The handlers of a user's own learning content: progress, achievements,   *)
(* test submissions.  Each takes the Claims extractor's value and binds      *)
(* claims.user_id to its statements                                          *)

\* table test_items: id, test_id, correct_answer; no handler writes it.  Test 1
\* has two questions, test 2 has one, no row names test 3
test_items ==
    {[id |-> 1, test_id |-> 1, correct_answer |-> "a"],
     [id |-> 2, test_id |-> 1, correct_answer |-> "b"],
     [id |-> 3, test_id |-> 2, correct_answer |-> "a"]}

\* handlers.rs 158-163: INSERT ... ON CONFLICT (user_id, content_type, content_id)
\* DO UPDATE SET is_learned = TRUE, learned_at = NOW()
MarkLearnedUpsert(user_id, content_type, content_id, t) ==
    {r \in user_progress : ~(/\ r.user_id = user_id
                             /\ r.content_type = content_type
                             /\ r.content_id = content_id)}
    \cup {[user_id |-> user_id, content_type |-> content_type,
           content_id |-> content_id, is_learned |-> TRUE, learned_at |-> t]}

\* faulty variant: SELECT * FROM user_progress, without the WHERE
ProgressOfAnyone(user_id) == user_progress

\* handlers.rs 180: SELECT * FROM user_progress WHERE user_id = $1
ProgressOf(user_id) == {r \in user_progress : r.user_id = user_id}

\* handlers.rs 206-210: achievements JOIN user_achievements WHERE ua.user_id = $1;
\* the rows returned are UserAchievementDetails, without a user_id
AchievementsOf(user_id) ==
    {[id |-> ua.achievement_id, achieved_at |-> ua.achieved_at] :
        ua \in {r \in user_achievements : r.user_id = user_id}}

\* handlers.rs 271-273: SELECT id, correct_answer FROM test_items WHERE test_id = $1
CorrectAnswersOf(id) == {r \in test_items : r.test_id = id}

\* faulty variant: the last answer with the question_id
FindAnswerLast(answers, question_id) ==
    LET at == {i \in 1..Len(answers) : answers[i].question_id = question_id}
    IN  IF at = {} THEN 0 ELSE CHOOSE i \in at : \A j \in at : j <= i

\* handlers.rs 286: payload.answers.iter().find(|a| a.question_id == question_id):
\* the index of the first such answer, 0 for None
FindAnswer(answers, question_id) ==
    LET at == {i \in 1..Len(answers) : answers[i].question_id = question_id}
    IN  IF at = {} THEN 0 ELSE CHOOSE i \in at : \A j \in at : i <= j

\* handlers.rs 284-291: the loop over the fetched rows
RECURSIVE Score(_, _)
Score(correct_answers, answers) ==
    IF correct_answers = {} THEN 0
    ELSE LET row == CHOOSE r \in correct_answers : TRUE
             i == FindAnswer(answers, row.id)
             rest == Score(correct_answers \ {row}, answers)
         IN  IF i # 0 /\ answers[i].answer = row.correct_answer THEN rest + 1 ELSE rest

\* handlers.rs 294-299: INSERT INTO test_results (user_id, test_id, score)
InsertTestResult(user_id, id, score) ==
    Append(test_results, [id |-> Len(test_results) + 1, user_id |-> user_id,
                          test_id |-> id, score |-> score])

\* a request of one of these handlers as it arrives, its extractor run
LearningCall(op, arg) ==
    LET extracted == from_request_parts(arg.bearer, now)
        start == [IdleCall EXCEPT !.op = op, !.arg = arg, !.pc = "done", !.checkedAt = now]
    IN  IF extracted.ok THEN [start EXCEPT !.claims = extracted.claims]
        ELSE Rejection(start, extracted.err)

\* handlers::mark_learned_handler
MarkLearnedHandler(p, bearer, content_type, content_id) ==
    /\ NextCall(p)
    /\ LET call == LearningCall("mark_learned", [bearer |-> bearer,
                        content_type |-> content_type, content_id |-> content_id])
       IN  IF call.claims = NoValue
           THEN /\ calls' = [calls EXCEPT ![p] = call]
                /\ UNCHANGED user_progress
           ELSE /\ calls' = [calls EXCEPT ![p] = [call EXCEPT !.result = Response(OK, "")]]
                /\ user_progress' = MarkLearnedUpsert(call.claims.user_id, content_type, content_id, now)
    /\ UNCHANGED <<user_achievements, test_results, jwt_secret, users, sessions,
                   hieroglyphs, now, deleted, loggedOut>>

\* handlers::get_my_progress_handler
GetMyProgressHandler(p, bearer) ==
    /\ NextCall(p)
    /\ LET call == LearningCall("get_my_progress", [bearer |-> bearer])
       IN  calls' = [calls EXCEPT ![p] =
             IF call.claims = NoValue THEN call
             ELSE [call EXCEPT !.result = [status |-> OK, rows |-> ProgressOf(call.claims.user_id)]]]
    /\ UNCHANGED <<learning, jwt_secret, users, sessions, hieroglyphs, now, deleted, loggedOut>>

\* handlers::get_my_achievements_handler
GetMyAchievementsHandler(p, bearer) ==
    /\ NextCall(p)
    /\ LET call == LearningCall("get_my_achievements", [bearer |-> bearer])
       IN  calls' = [calls EXCEPT ![p] =
             IF call.claims = NoValue THEN call
             ELSE [call EXCEPT !.result = [status |-> OK, rows |-> AchievementsOf(call.claims.user_id)]]]
    /\ UNCHANGED <<learning, jwt_secret, users, sessions, hieroglyphs, now, deleted, loggedOut>>

\* handlers::submit_test_handler, to the first await: the rows of the test are
\* fetched; none -> 404
SubmitTestSelect(p, bearer, id, answers) ==
    /\ NextCall(p)
    /\ LET call == LearningCall("submit_test", [bearer |-> bearer, id |-> id, answers |-> answers])
       IN  calls' = [calls EXCEPT ![p] =
             IF call.claims = NoValue THEN call
             ELSE IF CorrectAnswersOf(id) = {}
             THEN [call EXCEPT !.result = AppError(NOT_FOUND, "test not found or without questions")]
             ELSE [call EXCEPT !.pc = "submit_insert", !.correct_answers = CorrectAnswersOf(id)]]
    /\ UNCHANGED <<learning, jwt_secret, users, sessions, hieroglyphs, now, deleted, loggedOut>>

\* handlers.rs 277, 284-306: the score is counted, the result row inserted, the
\* response built
SubmitTestInsert(p) ==
    /\ calls[p].pc = "submit_insert"
    /\ LET total_questions == Cardinality(calls[p].correct_answers)
           score == Score(calls[p].correct_answers, calls[p].arg.answers)
       IN  /\ test_results' = InsertTestResult(calls[p].claims.user_id, calls[p].arg.id, score)
           /\ calls' = [calls EXCEPT ![p].pc = "done",
                          ![p].result = [status |-> OK, score |-> score,
                                         total_questions |-> total_questions]]
    /\ UNCHANGED <<user_progress, user_achievements, jwt_secret, users, sessions,
                   hieroglyphs, now, deleted, loggedOut>>

\* the access token a login at instant 0 returned to the user
AccessTokenOf(id) == encode(AccessClaims(id, users[id].role, 0), JWT_SECRET)

\* two users who have logged in; rows of each of them in the three tables
InitLearning ==
    /\ users = (1 :> [nickname |-> "alice", password_hash |-> hash_password(pw123), role |-> "user"])
            @@ (2 :> [nickname |-> "bob", password_hash |-> hash_password(pw123), role |-> "admin"])
    /\ sessions = {RefreshSessionRow(1, EarlierRefreshToken, 0),
                   RefreshSessionRow(2, EarlierRefreshToken + 1, 0)}
    /\ hieroglyphs = <<>>
    /\ now = 0
    /\ calls = [p \in Procs |-> IdleCall]
    /\ jwt_secret = Some(JWT_SECRET)
    /\ deleted = {}
    /\ loggedOut = {}
    /\ user_progress = {[user_id |-> 2, content_type |-> "hieroglyph", content_id |-> 1,
                         is_learned |-> TRUE, learned_at |-> 0]}
    /\ user_achievements = {[user_id |-> 1, achievement_id |-> 1, achieved_at |-> 0],
                            [user_id |-> 2, achievement_id |-> 2, achieved_at |-> 0]}
    /\ test_results = <<[id |-> 1, user_id |-> 2, test_id |-> 1, score |-> 1]>>

\* the bearer tokens of the two users, and alice's with the user_id changed
LearningBearers ==
    {AccessTokenOf(1), AccessTokenOf(2), [AccessTokenOf(1) EXCEPT !.claims.user_id = 2]}

ContentTypes == {"hieroglyph", "word"}

\* an answer: AnswerPayload
Answer(question_id, answer) == [question_id |-> question_id, answer |-> answer]

NextLearning ==
    \/ \E p \in Procs, bearer \in LearningBearers, content_type \in ContentTypes :
          MarkLearnedHandler(p, bearer, content_type, 1)
    \/ \E p \in Procs, bearer \in LearningBearers : GetMyProgressHandler(p, bearer)
    \/ \E p \in Procs, bearer \in LearningBearers : GetMyAchievementsHandler(p, bearer)
    \/ \E p \in Procs, bearer \in LearningBearers, answers \in {<<>>, <<Answer(1, "a")>>} :
          SubmitTestSelect(p, bearer, 1, answers)
    \/ \E p \in Procs : SubmitTestInsert(p)

SpecLearning == InitLearning /\ [][NextLearning]_vars

\* the answers of a submission to test 1: right or wrong for question 1, right
\* for question 2
AnswerInputs == {Answer(1, "a"), Answer(1, "b"), Answer(2, "b")}

\* TestSubmissionPayload.answers: up to two of these answers, in any order and
\* with repetitions, or an answer to a question of another test and a right one
Submissions ==
    {<<>>} \cup {<<a>> : a \in AnswerInputs} \cup {<<a, b>> : a, b \in AnswerInputs}
           \cup {<<Answer(3, "a"), Answer(1, "a")>>}

NextTest ==
    \/ \E p \in Procs, answers \in Submissions :
          SubmitTestSelect(p, AccessTokenOf(1), 1, answers)
    \/ \E p \in Procs : SubmitTestSelect(p, AccessTokenOf(1), 3, <<Answer(1, "a")>>)
    \/ \E p \in Procs : SubmitTestInsert(p)

SpecTest == InitLearning /\ [][NextTest]_vars

-----------------------------------------------------------------------------
(* Properties *)

Done(p) == calls[p].pc = "done"

IsRefresh(p) == calls[p].op = "refresh"

\* the call returned a token pair
ReturnedPair(p) == calls[p].out # NoValue

\* the call ended with 401
FailedUnauthorized(p) ==
    /\ Done(p)
    /\ calls[p].result.status = UNAUTHORIZED
    /\ calls[p].out = NoValue
    /\ calls[p].created = {}

InvalidRefreshToken == AppError(UNAUTHORIZED, "invalid refresh token")
SessionExpiredError == AppError(UNAUTHORIZED, "session expired")

\* no row of refresh_sessions carries the token
NoRowFor(refresh_token) == \A s \in sessions : s.refresh_token # refresh_token

\* the refresh found its row and has made the expiry check
Checked(p) ==
    /\ IsRefresh(p)
    /\ calls[p].pc \in {"gen_select", "gen_insert", "done"}
    /\ calls[p].result # InvalidRefreshToken

\* ... and the check let it through
PassedExpiry(p) == Checked(p) /\ calls[p].result # SessionExpiredError

\* C1: of the refresh calls that present the same stored, unexpired token, in
\* any interleaving, at most one returns a new pair (and creates a session);
\* the others end with 401.
C1_AtMostOneRefreshPerToken ==
    \A p, q \in Procs :
        (p # q /\ IsRefresh(p) /\ IsRefresh(q) /\ calls[p].arg = calls[q].arg
              /\ Done(p) /\ Done(q))
        => (~ReturnedPair(p) /\ FailedUnauthorized(p)) \/ (~ReturnedPair(q) /\ FailedUnauthorized(q))

\* C2: a refresh that starts after the row of its token was deleted (by a
\* refresh, by the expiry cleanup or by logout) ends with 401 and creates no
\* session, whatever logins, refreshes and logouts happened in between.
C2_DeletedTokenNeverRefreshes ==
    \A p \in Procs :
        (IsRefresh(p) /\ calls[p].startedAfterDelete) => FailedUnauthorized(p)

C2_Witness ==
    \E p, q \in Procs :
        /\ IsRefresh(p) /\ calls[p].startedAfterDelete /\ Done(p)
        /\ q < p /\ IsRefresh(q) /\ calls[q].arg = calls[p].arg /\ ReturnedPair(q)
        /\ sessions # {}

\* C3 as stated: a refresh passes the expiry check exactly when it is made
\* strictly before expires_at = T + 30 days, and fails with "session expired"
\* at expires_at and after.
C3_ExpiresAtOrAfter ==
    \A p \in Procs :
        Checked(p) => (PassedExpiry(p) <=> calls[p].checkedAt < calls[p].expires_at)

\* C3 amended: the session created at T has expires_at = T + 30 days; a refresh
\* passes the expiry check, and then returns a new pair, exactly when it is
\* made at or before expires_at, and fails with 401 "session expired" when it
\* is made strictly after.
C3_ExpiresStrictlyAfter ==
    \A p \in Procs :
        Checked(p) =>
            /\ calls[p].expires_at =
                  calls[calls[p].arg].claims.iat + Days(REFRESH_TOKEN_EXPIRATION_DAYS)
            /\ PassedExpiry(p) <=> calls[p].checkedAt <= calls[p].expires_at
            /\ (Done(p) /\ PassedExpiry(p)) => (ReturnedPair(p) /\ calls[p].result.status = OK)
            /\ ~PassedExpiry(p) => FailedUnauthorized(p)

C3_Witness ==
    \E p \in Procs :
        /\ Checked(p) /\ Done(p) /\ ReturnedPair(p)
        /\ calls[p].checkedAt = calls[p].expires_at

\* C4: a refresh that starts after a logout of its token has completed ends
\* with 401 and returns no pair.
C4_LoggedOutTokenNeverRefreshes ==
    \A p \in Procs :
        (IsRefresh(p) /\ calls[p].startedAfterLogout) => FailedUnauthorized(p)

C4_Witness ==
    \E p, q \in Procs :
        /\ IsRefresh(p) /\ calls[p].startedAfterLogout /\ Done(p)
        /\ calls[q].op = "logout" /\ calls[q].arg = calls[p].arg
        /\ calls[p].arg \in deleted

\* C5: a refresh whose session is found expired deletes the row, ends with 401
\* "session expired", inserts no session and issues no access token.
C5_ExpiredSessionIsCleanedUp ==
    \A p \in Procs :
        (Checked(p) /\ calls[p].checkedAt > calls[p].expires_at) =>
            /\ Done(p)
            /\ calls[p].result = SessionExpiredError
            /\ NoRowFor(calls[p].arg)
            /\ calls[p].created = {}
            /\ calls[p].out = NoValue
            /\ calls[p].claims = NoValue

C5_Witness ==
    \E p \in Procs :
        /\ Checked(p) /\ calls[p].checkedAt > calls[p].expires_at
        /\ calls[p].arg \in deleted

\* C6: a refresh with a token that matches no row ends with 401 "invalid
\* refresh token" and leaves refresh_sessions as it was.
C6_UnknownTokenChangesNothing ==
    [][\A p \in Procs :
          (calls[p].pc = "idle" /\ calls'[p].op = "refresh" /\ NoRowFor(calls'[p].arg))
          => /\ calls'[p].pc = "done"
             /\ calls'[p].result = InvalidRefreshToken
             /\ calls'[p].out = NoValue
             /\ sessions' = sessions]_vars

C6_Witness ==
    \E p \in Procs :
        /\ IsRefresh(p) /\ Done(p) /\ calls[p].result = InvalidRefreshToken
        /\ calls[p].arg = BogusToken
        /\ sessions # {}

\* the call presented a bearer token to the claims extractor
PresentedBearer(p) ==
    /\ calls[p].op \in {"protected", "create_hieroglyph"}
    /\ Done(p)
    /\ calls[p].arg # NoValue

\* the extractor yielded Claims
Authenticated(p) == PresentedBearer(p) /\ calls[p].claims # NoValue

\* the extractor rejected the request
Rejected(p) ==
    /\ PresentedBearer(p)
    /\ calls[p].claims = NoValue
    /\ calls[p].result.status = UNAUTHORIZED

\* C7: every access token issued by login or refresh carries the user's id and
\* the role the users table holds when generate_tokens reads it; the tokens
\* already returned are not changed by a later role change.
C7_RoleReadAtIssuance ==
    [][\A p \in Procs :
          /\ (calls[p].pc = "gen_select" /\ calls'[p].pc = "gen_insert")
             => /\ calls'[p].claims.user_id = calls[p].user_id
                /\ calls'[p].claims.role = users[calls[p].user_id].role
          /\ (calls[p].pc = "gen_insert" /\ calls'[p].pc = "done")
             => calls'[p].out.access_token = encode(calls[p].claims, JWT_SECRET)
          /\ ReturnedPair(p) => calls'[p].out = calls[p].out]_vars

C7_Witness ==
    \E p, q \in Procs :
        /\ ReturnedPair(p) /\ ReturnedPair(q) /\ IsRefresh(q)
        /\ calls[q].arg = calls[p].out.refresh_token
        /\ calls[p].out.access_token.claims.role = "user"
        /\ calls[q].out.access_token.claims.role = "admin"
        /\ calls[q].out.access_token.claims.user_id = calls[p].out.access_token.claims.user_id

NotServerSigned(token) == token.sig[2] # JWT_SECRET \/ token.sig[3] # token.claims

\* C9: a token signed with a secret other than the server's, or whose payload
\* differs from the signed payload, is rejected with 401 and yields no Claims.
C9_ForgedTokenIsRejected ==
    \A p \in Procs :
        (PresentedBearer(p) /\ NotServerSigned(calls[p].arg)) => Rejected(p)

C9_Witness ==
    \E p, q \in Procs :
        /\ Rejected(p) /\ calls[p].arg.sig[2] = OtherSecret
        /\ Rejected(q) /\ calls[q].arg.sig[2] = JWT_SECRET
        /\ calls[q].arg.sig[3] # calls[q].arg.claims
        /\ calls[q].arg.claims.role = "admin"
        /\ calls[q].checkedAt <= calls[q].arg.claims.exp

CreateCalls(status) ==
    {p \in Procs : calls[p].op = "create_hieroglyph" /\ Done(p)
                      /\ calls[p].result.status = status}

\* C10: create_hieroglyph with valid Claims whose role is not admin ends with
\* 403 and inserts nothing; with valid admin Claims it inserts the row and
\* ends with 201.
C10_OnlyAdminCreates ==
    /\ \A p \in Procs :
          (calls[p].op = "create_hieroglyph" /\ Authenticated(p)) =>
              IF calls[p].claims.role = "admin"
              THEN calls[p].result.status = CREATED
              ELSE calls[p].result.status = FORBIDDEN
    /\ Len(hieroglyphs) = Cardinality(CreateCalls(CREATED))

C10_Witness ==
    \E p \in Procs :
        /\ calls[p].op = "create_hieroglyph" /\ Authenticated(p)
        /\ calls[p].claims.role = "user"
        /\ calls[p].result.status = FORBIDDEN
        /\ hieroglyphs = <<>>

\* the admin half of C10 is reached as well
C10_AdminCreated ==
    \E p \in Procs :
        /\ calls[p].op = "create_hieroglyph" /\ Authenticated(p)
        /\ calls[p].claims.role = "admin"
        /\ calls[p].result.status = CREATED
        /\ Len(hieroglyphs) = 1

IsRegister(p) == calls[p].op = "register"

\* C12: a register whose nickname has no row when its INSERT runs adds exactly
\* one row (the nickname, the hash of its password, the default role) and ends
\* with 201; a register that arrives when the nickname has a row ends with 409
\* and leaves the users table as it was; no step changes an existing row.
C12_RegisterOnceThenConflict ==
    [][\A p \in Procs :
          /\ (calls[p].pc = "idle" /\ IsRegister(p)' /\ UsersByNickname(calls'[p].arg[1]) # {})
             => /\ calls'[p].pc = "done"
                /\ calls'[p].result.status = CONFLICT
                /\ users' = users
          /\ (calls[p].pc = "reg_insert" /\ calls'[p].pc = "done"
                  /\ UsersByNickname(calls[p].arg[1]) = {})
             => /\ calls'[p].result.status = CREATED
                /\ Cardinality(DOMAIN users') = Cardinality(DOMAIN users) + 1
                /\ \E id \in DOMAIN users' \ DOMAIN users :
                      /\ users'[id].nickname = calls[p].arg[1]
                      /\ verify_password(calls[p].arg[2], users'[id].password_hash)
          /\ \A id \in DOMAIN users : id \in DOMAIN users' /\ users'[id] = users[id]]_vars

C12_Witness ==
    \E p, q \in Procs :
        /\ IsRegister(p) /\ Done(p) /\ calls[p].result.status = CREATED
        /\ IsRegister(q) /\ Done(q) /\ calls[q].result.status = CONFLICT
        /\ p < q /\ calls[q].arg[1] = calls[p].arg[1] /\ calls[q].arg[2] # calls[p].arg[2]
        /\ \E id \in DOMAIN users : UsersByNickname(calls[p].arg[1]) = {id}
              /\ users[id].password_hash = hash_password(calls[p].arg[2])
              /\ users[id].role = "user"

IsLogin(p) == calls[p].op = "login"

\* the nickname has no row
NoSuchUser(p) == UsersByNickname(calls[p].arg[1]) = {}

\* the nickname has a row and the password is not the one that was hashed
WrongPassword(p) ==
    \E id \in UsersByNickname(calls[p].arg[1]) :
        ~verify_password(calls[p].arg[2], users[id].password_hash)

\* C13: a login with a nickname that has no row and a login with a wrong
\* password end with the same response, 401 with one message, and return no
\* tokens; a completed login with the right password ends with 200 and a pair
\* of an access token for that user and a refresh token.
C13_LoginFailuresAlike ==
    /\ \A p \in Procs :
          (IsLogin(p) /\ (NoSuchUser(p) \/ WrongPassword(p)))
          => /\ Done(p)
             /\ calls[p].result.status = UNAUTHORIZED
             /\ calls[p].out = NoValue
    /\ \A p, q \in Procs :
          (IsLogin(p) /\ NoSuchUser(p) /\ IsLogin(q) /\ WrongPassword(q))
          => calls[p].result = calls[q].result
    /\ \A p \in Procs :
          (IsLogin(p) /\ Done(p) /\ ~NoSuchUser(p) /\ ~WrongPassword(p))
          => /\ calls[p].result.status = OK
             /\ ReturnedPair(p)
             /\ calls[p].out.access_token.claims.user_id \in UsersByNickname(calls[p].arg[1])
             /\ calls[p].out.refresh_token \in calls[p].created

C13_Witness ==
    \E p, q, r \in Procs :
        /\ IsLogin(p) /\ NoSuchUser(p) /\ calls[p].result.status = UNAUTHORIZED
        /\ IsLogin(q) /\ WrongPassword(q) /\ calls[q].result = calls[p].result
        /\ IsLogin(r) /\ calls[r].arg[1] = calls[q].arg[1] /\ ReturnedPair(r)
        /\ calls[r].result.status = OK

IsLogout(p) == calls[p].op = "logout"

\* C14: a logout ends with 200 whether or not the token has a row; it removes
\* the rows of that token and nothing else, so a second logout of the same
\* token leaves the store as the first one left it.
C14_LogoutIdempotent ==
    [][\A p \in Procs :
          (calls[p].pc = "idle" /\ IsLogout(p)')
          => /\ calls'[p].pc = "done"
             /\ calls'[p].result.status = OK
             /\ sessions' = {s \in sessions : s.refresh_token # calls'[p].arg}
             /\ NoRowFor(calls'[p].arg) => sessions' = sessions
             /\ \A s \in sessions' : s.refresh_token # calls'[p].arg
             /\ users' = users /\ hieroglyphs' = hieroglyphs]_vars

C14_Witness ==
    \E p, q \in Procs :
        /\ p < q /\ IsLogout(p) /\ IsLogout(q) /\ calls[p].arg = calls[q].arg
        /\ calls[p].arg \in deleted
        /\ calls[p].result.status = OK /\ calls[q].result.status = OK
        /\ sessions = {}

\* C15: generate_tokens builds Claims with iat = now and exp = iat + 15 minutes,
\* and on success inserts exactly one row into refresh_sessions: its token is
\* the refresh token returned, its owner the user_id of the access token
\* returned, its expires_at that same now + 30 days.
C15_IssuancePersistsOneSession ==
    [][\A p \in Procs :
          /\ (calls[p].pc = "gen_select" /\ calls'[p].pc = "gen_insert")
             => /\ calls'[p].claims.iat = now
                /\ calls'[p].claims.exp = now + 15 * 60
                /\ sessions' = sessions
          /\ (calls[p].pc = "gen_insert" /\ calls'[p].pc = "done")
             => /\ calls'[p].result.status = OK
                /\ calls'[p].out.access_token.claims = calls[p].claims
                /\ \E row \in sessions' \ sessions :
                      /\ sessions' = sessions \cup {row}
                      /\ row.refresh_token = calls'[p].out.refresh_token
                      /\ row.user_id = calls'[p].out.access_token.claims.user_id
                      /\ row.expires_at = calls'[p].out.access_token.claims.iat
                                               + 30 * 24 * 60 * 60]_vars

C15_Witness ==
    \E p \in Procs, row \in sessions :
        /\ IsRefresh(p) /\ ReturnedPair(p)
        /\ calls[p].out.access_token.claims.iat > 0
        /\ calls[p].out.access_token.claims.exp = calls[p].out.access_token.claims.iat + 900
        /\ row.refresh_token = calls[p].out.refresh_token
        /\ row.user_id = calls[p].out.access_token.claims.user_id
        /\ row.expires_at > now

\* a request to an operation that takes Claims
IsGuarded(p) == calls[p].op \in {"protected", "create_hieroglyph"} /\ Done(p)

\* the token does not verify at time t: wrong signature, or expired
FailsVerification(token, t) == NotServerSigned(token) \/ token.claims.exp + Leeway < t

\* C11: a request to a protected operation that carries no bearer token, or a
\* token that fails verification, ends with 401 and yields no Claims, so the
\* handler body does not run: rows of hieroglyphs come from authenticated
\* requests only; a request to the protected route with a token returned by
\* login or refresh, not yet expired, ends with 200.
C11_RejectedBeforeHandler ==
    /\ \A p \in Procs :
          (IsGuarded(p) /\ (calls[p].arg = NoValue
                               \/ FailsVerification(calls[p].arg, calls[p].checkedAt)))
          => /\ calls[p].result.status = UNAUTHORIZED
             /\ calls[p].claims = NoValue
    /\ Len(hieroglyphs) <= Cardinality({p \in Procs : calls[p].op = "create_hieroglyph"
                                                          /\ Authenticated(p)})
    /\ \A p \in Procs :
          (calls[p].op = "protected" /\ Done(p) /\ calls[p].arg \in KnownAccessTokens
               /\ calls[p].checkedAt <= calls[p].arg.claims.exp)
          => calls[p].result = Response(OK, "protected resource")

C11_Witness ==
    \E p, q \in Procs :
        /\ calls[p].op = "protected" /\ Rejected(p)
        /\ FailsVerification(calls[p].arg, calls[p].checkedAt)
        /\ calls[q].op = "protected" /\ Authenticated(q)
        /\ calls[q].arg \in KnownAccessTokens
        /\ calls[q].result.status = OK

\* the request without a bearer token is reached as well
C11_NoBearerRejected ==
    \E p \in Procs :
        /\ IsGuarded(p) /\ calls[p].arg = NoValue
        /\ calls[p].result = AppError(UNAUTHORIZED, "authorization token required")

\* C16: an access token that login or refresh returned is accepted, with the
\* claims it was issued with, at every time up to its exp, whatever happened
\* since: a logout, a rotation of its session by refresh, a change of the
\* user's role.
C16_NoRevocation ==
    /\ \A token \in KnownAccessTokens :
          now <= token.claims.exp
          => from_request_parts(token, now) = [ok |-> TRUE, claims |-> token.claims]
    /\ \A p \in Procs :
          (calls[p].op = "protected" /\ Done(p) /\ calls[p].arg \in KnownAccessTokens
               /\ calls[p].checkedAt <= calls[p].arg.claims.exp)
          => /\ calls[p].claims = calls[p].arg.claims
             /\ calls[p].result.status = OK

\* a logout of the session and a role change, then the token is accepted
C16_Witness ==
    \E p, q, r \in Procs :
        /\ IsLogin(p) /\ ReturnedPair(p)
        /\ IsLogout(q) /\ calls[q].arg = calls[p].out.refresh_token
        /\ calls[q].arg \in deleted
        /\ users[calls[p].out.access_token.claims.user_id].role
               # calls[p].out.access_token.claims.role
        /\ q < r /\ calls[r].op = "protected" /\ calls[r].arg = calls[p].out.access_token
        /\ Authenticated(r) /\ calls[r].claims.role = "user"
        /\ from_request_parts(calls[p].out.access_token, now).ok

\* a rotation of the session, then the token is accepted
C16_AcceptedAfterRotation ==
    \E p, q, r \in Procs :
        /\ IsLogin(p) /\ ReturnedPair(p)
        /\ IsRefresh(q) /\ calls[q].arg = calls[p].out.refresh_token /\ ReturnedPair(q)
        /\ q < r /\ calls[r].op = "protected" /\ calls[r].arg = calls[p].out.access_token
        /\ Authenticated(r)

\* the calls that returned the refresh token
IssuedBy(refresh_token) ==
    {p \in Procs : ReturnedPair(p) /\ calls[p].out.refresh_token = refresh_token}

\* C18: refresh_sessions never holds two rows with the same token, and the
\* token of every row was returned by exactly one issuance, to the user who
\* owns the row.
C18_SessionTokensUnique ==
    /\ \A s1, s2 \in sessions : s1.refresh_token = s2.refresh_token => s1 = s2
    /\ \A s \in sessions :
          /\ Cardinality(IssuedBy(s.refresh_token)) = 1
          /\ \A p \in IssuedBy(s.refresh_token) :
                calls[p].out.access_token.claims.user_id = s.user_id

C18_Witness ==
    \E s1, s2 \in sessions :
        /\ s1.refresh_token # s2.refresh_token
        /\ s1.user_id = s2.user_id /\ s1.expires_at = s2.expires_at
        /\ \E p \in IssuedBy(s1.refresh_token) : IsRefresh(p)
        /\ deleted # {}

\* C19: verify_password(p, hash_password(p)) is true, and for distinct
\* passwords p1 # p2, verify_password(p2, hash_password(p1)) is false.
C19_VerifyTrueOnlyForSamePassword ==
    \A p \in Procs :
        calls[p].op = "verify"
        => calls[p].out = Some(calls[p].arg[1] = calls[calls[p].arg[2]].arg)

\* the round trip is reached
C19_RoundTrip ==
    \E p \in Procs :
        /\ calls[p].op = "verify" /\ calls[p].arg[1] = calls[calls[p].arg[2]].arg
        /\ calls[p].out = Some(TRUE)

\* the request's task panicked: the client gets no response
Panicked(p) == calls[p].pc = "panicked"

\* a query or the signing of a register, login, refresh or logout failed
Failed(p) == calls[p].op \in StoreOps /\ calls[p].failure # NoValue

\* the responses a failure may give: one fixed message per kind of error
GenericError(kind) ==
    AppError(500, IF kind = "store" THEN "server error" ELSE "JWT error")

\* C17: the signing secret is checked when the process starts, so that no login,
\* refresh or authenticated request ever fails, or is cut short between its
\* store operations, because the secret is missing.
C17_NoRequestFailsForMissingSecret == \A p \in Procs : ~Panicked(p)

\* a refresh deleted the row of its token and was then cut short
C17_RefreshCutShortAfterDelete ==
    \E p \in Procs : Panicked(p) /\ IsRefresh(p) /\ calls[p].arg \in deleted
                      /\ NoRowFor(calls[p].arg)

\* C20: every failure of the store or of token signing in register, login,
\* refresh and logout ends the call with 500 and a fixed message without the
\* detail of the error, and the call does nothing more (no retry); a call that
\* cannot sign because the secret is missing is such a failure.
C20_FailuresAnswered500 ==
    \A p \in Procs :
        (Failed(p) \/ (calls[p].op \in StoreOps /\ Panicked(p)))
        => /\ Done(p)
           /\ calls[p].result.status = INTERNAL_SERVER_ERROR
           /\ calls[p].out = NoValue

\* what holds of C20: the failures that `?` converts (a failing query, a
\* failing encode) end the call with 500 and the fixed message of their kind,
\* the same for every detail, and the call returns no pair and creates no row.
C20_ConvertedFailuresAnswered500 ==
    \A p \in Procs :
        Failed(p)
        => /\ Done(p)
           /\ calls[p].result = GenericError(calls[p].failure.kind)
           /\ calls[p].out = NoValue
           /\ calls[p].created = {}

\* failures of both kinds, of different detail, after the session was deleted
C20_FailuresReached ==
    \E p, q \in Procs :
        /\ Failed(p) /\ calls[p].failure.kind = "sign"
        /\ Failed(q) /\ calls[q].failure.kind = "store" /\ calls[q].failure.at = "gen_insert"
        /\ IsRefresh(q) /\ calls[q].arg \in deleted
        /\ calls[q].failure.detail = "Io"

\* the DELETE of the call removed the row of its token
Consumed(p) == calls[p].removed > 0

\* C21: a stored refresh token is consumed by one operation only: when a
\* logout(t) has removed the row of t, no refresh(t) returns a new pair, in
\* any interleaving of the two.
C21_LogoutAndRefreshExclusive ==
    \A p, q \in Procs :
        (IsLogout(p) /\ Consumed(p) /\ IsRefresh(q) /\ calls[q].arg = calls[p].arg)
        => ~ReturnedPair(q)

\* C22: of the register calls with one nickname, in any interleaving, at most
\* one creates a row with that nickname, and every other one ends with 409.
C22_ConcurrentRegisterConflicts ==
    /\ \A nickname \in NewNicknames : Cardinality(UsersByNickname(nickname)) <= 1
    /\ \A p \in Procs :
          (IsRegister(p) /\ Done(p)) => calls[p].result.status \in {CREATED, CONFLICT}

\* both outcomes of the race: two rows with one nickname; one row and a 500
C22_TwoRows ==
    \E p, q \in Procs :
        /\ p # q /\ IsRegister(p) /\ IsRegister(q) /\ calls[p].arg[1] = calls[q].arg[1]
        /\ Done(p) /\ Done(q)
        /\ calls[p].result.status = CREATED /\ calls[q].result.status = CREATED

C22_ServerError ==
    \E p, q \in Procs :
        /\ IsRegister(p) /\ IsRegister(q) /\ calls[p].arg[1] = calls[q].arg[1]
        /\ Done(p) /\ Done(q)
        /\ calls[p].result.status = CREATED
        /\ calls[q].result.status = INTERNAL_SERVER_ERROR
        /\ Cardinality(UsersByNickname(calls[p].arg[1])) = 1

\* the position of call p changes from one to the other in this step
Moves(p, from, to) == calls[p].pc = from /\ calls'[p].pc = to

\* C23: a refresh(t) that succeeds takes its store steps in the order lookup,
\* expiry check, delete of t, user read, insert of the new session: the row of
\* t is gone from the delete on, so the store never holds both t and the
\* session created from it; the delete removes the row of t only, the user
\* read changes nothing, the insert adds exactly one row, owned by the user_id
\* of the row of t.
C23_RefreshStepOrder ==
    /\ [](\A s \in sessions : \A p \in IssuedBy(s.refresh_token) :
             IsRefresh(p) => NoRowFor(calls[p].arg))
    /\ [][\A p \in Procs :
             /\ (calls[p].pc = "idle" /\ IsRefresh(p)')
                => /\ calls'[p].pc \in {"rotate", "done"}
                   /\ sessions' = sessions
             /\ (IsRefresh(p) /\ Moves(p, "rotate", "gen_select"))
                => /\ calls'[p].checkedAt = now /\ now <= calls[p].expires_at
                   /\ sessions' = {s \in sessions : s.refresh_token # calls[p].arg}
             /\ (IsRefresh(p) /\ Moves(p, "gen_select", "gen_insert"))
                => /\ NoRowFor(calls[p].arg)
                   /\ sessions' = sessions
             /\ (IsRefresh(p) /\ Moves(p, "gen_insert", "done"))
                => /\ NoRowFor(calls[p].arg)
                   /\ Cardinality(sessions') = Cardinality(sessions) + 1
                   /\ \E row \in sessions' :
                         /\ sessions' = sessions \cup {row}
                         /\ row.user_id = calls[p].user_id
                         /\ row.refresh_token = calls'[p].out.refresh_token
             /\ (IsRefresh(p) /\ calls[p].pc # calls'[p].pc)
                => <<calls[p].pc, calls'[p].pc>> \in
                      {<<"idle", "rotate">>, <<"idle", "done">>, <<"rotate", "done">>,
                       <<"rotate", "gen_select">>, <<"gen_select", "gen_insert">>,
                       <<"gen_select", "done">>, <<"gen_select", "panicked">>,
                       <<"gen_insert", "done">>}]_vars

\* a login and then a refresh of its token, nothing else: the store is the row
\* of the new session of the same user
C23_Witness ==
    \E p, q \in Procs :
        /\ IsLogin(p) /\ ReturnedPair(p)
        /\ IsRefresh(q) /\ ReturnedPair(q) /\ calls[q].arg = calls[p].out.refresh_token
        /\ \A r \in Procs \ {p, q} : calls[r].pc = "idle"
        /\ Consumed(q)
        /\ sessions = {RefreshSessionRow(calls[p].user_id, calls[q].out.refresh_token,
                                          calls[q].claims.iat)}

\* the refresh failed inside generate_tokens, after its DELETE
FailedIssuing(p) ==
    /\ IsRefresh(p) /\ Failed(p)
    /\ calls[p].failure.at \in {"gen_select", "gen_insert"}

\* C24: when generate_tokens fails inside a refresh, at the read of the user or
\* at the insert of the new session, the refresh ends with an error and no
\* pair, the row of the presented token stays deleted and the store holds no
\* session created by this refresh.
C24_FailedIssuanceLosesSession ==
    \A p \in Procs :
        FailedIssuing(p)
        => /\ Done(p)
           /\ calls[p].result.status = INTERNAL_SERVER_ERROR
           /\ calls[p].out = NoValue
           /\ NoRowFor(calls[p].arg)
           /\ NoRowFor(NewRefreshToken(p))

C24_Witness ==
    \E p \in Procs :
        /\ FailedIssuing(p) /\ calls[p].failure.at = "gen_insert"
        /\ Consumed(p) /\ calls[p].arg \in deleted
        /\ \A s \in sessions : s.user_id # calls[p].user_id

\* C25: a pair is returned only once its session row is inserted: in the step
\* in which a login or a refresh returns a pair, the store holds the row of
\* the returned refresh token; a call whose INSERT failed ends with an error,
\* returns no access or refresh token and leaves no row.
C25_PairOnlyAfterInsert ==
    /\ [](\A p \in Procs :
             (Failed(p) /\ calls[p].failure.at = "gen_insert")
             => /\ calls[p].result.status = INTERNAL_SERVER_ERROR
                /\ calls[p].out = NoValue
                /\ NoRowFor(NewRefreshToken(p)))
    /\ [][\A p \in Procs :
             (~ReturnedPair(p) /\ ReturnedPair(p)')
             => \E row \in sessions' :
                   /\ row.refresh_token = calls'[p].out.refresh_token
                   /\ row.user_id = calls'[p].out.access_token.claims.user_id]_vars

C25_Witness ==
    \E p, q \in Procs :
        /\ ReturnedPair(p) /\ ~NoRowFor(calls[p].out.refresh_token)
        /\ Failed(q) /\ calls[q].failure.at = "gen_insert"
        /\ calls[q].out = NoValue /\ calls[q].claims # NoValue

\* call p takes a step
Acts(p) == calls'[p] # calls[p]

\* C26: a session row leaves the store only in a step of a refresh or a logout
\* that names its token; rows are never modified (a row that appears carries a
\* token no row carried); a step of a login or of a register removes no row.
C26_OnlyNamedTokenRemoved ==
    [][/\ \A s \in sessions \ sessions' :
             \E p \in Procs :
                 /\ Acts(p) /\ calls'[p].op \in {"refresh", "logout"}
                 /\ calls'[p].arg = s.refresh_token
       /\ \A s \in sessions' \ sessions : NoRowFor(s.refresh_token)
       /\ \A p \in Procs :
             (Acts(p) /\ calls'[p].op \in {"login", "register"}) => sessions \subseteq sessions'
      ]_vars

\* a logout removed one session of a user and the user's other session is there,
\* and a register has run
C26_Witness ==
    \E p, q \in Procs, s \in sessions :
        /\ IsLogout(p) /\ Consumed(p) /\ calls[p].arg # s.refresh_token
        /\ \E r \in IssuedBy(calls[p].arg) :
               calls[r].out.access_token.claims.user_id = s.user_id
        /\ IsRegister(q) /\ Done(q) /\ calls[q].result.status = CREATED

\* the stored hash of the nickname does not parse: verify_password is an error
VerifyError(p) ==
    \E id \in UsersByNickname(calls[p].arg[1]) : ~WellFormed(users[id].password_hash)

\* C27: a login that fails (no row for the nickname, a wrong password, an
\* error of the password verification) ends in its first step, before
\* generate_tokens: it has no claims, returns no pair, creates no session, and
\* leaves users and refresh_sessions as they were.
C27_FailedLoginChangesNothing ==
    [][\A p \in Procs :
          (calls[p].pc = "idle" /\ IsLogin(p)'
               /\ (NoSuchUser(p)' \/ WrongPassword(p)' \/ VerifyError(p)'))
          => /\ calls'[p].pc = "done"
             /\ calls'[p].result.status \in {UNAUTHORIZED, INTERNAL_SERVER_ERROR}
             /\ calls'[p].result.status = INTERNAL_SERVER_ERROR <=> VerifyError(p)'
             /\ calls'[p].claims = NoValue
             /\ calls'[p].out = NoValue
             /\ calls'[p].created = {}
             /\ sessions' = sessions /\ users' = users /\ hieroglyphs' = hieroglyphs]_vars

C27_Witness ==
    \E p, q, r \in Procs :
        /\ IsLogin(p) /\ ReturnedPair(p)
        /\ IsLogin(q) /\ p < q /\ calls[q].arg[1] = calls[p].arg[1] /\ WrongPassword(q)
        /\ calls[q].result.status = UNAUTHORIZED
        /\ IsLogin(r) /\ q < r /\ VerifyError(r)
        /\ calls[r].result.status = INTERNAL_SERVER_ERROR
        /\ Cardinality(sessions) = 1

\* the call is a request of one of the handlers of a user's own content
IsLearning(p) ==
    calls[p].op \in {"mark_learned", "get_my_progress", "get_my_achievements", "submit_test"}

\* the rows of the three tables that belong to other users than id
RowsOfOthers(id) ==
    <<{r \in user_progress : r.user_id # id},
      {r \in user_achievements : r.user_id # id},
      {test_results[i] : i \in {j \in 1..Len(test_results) : test_results[j].user_id # id}}>>

\* C28: a request of mark_learned, get_my_progress, get_my_achievements or
\* submit_test acts for the user of its verified access token only: the claims
\* are the payload of a token the server signed; a step of the request leaves
\* the rows of every other user as they were; the rows it returns are rows of
\* that user; a request whose token is refused returns no rows and changes
\* nothing.
C28_ScopedToTokenUser ==
    /\ [](\A p \in Procs : (IsLearning(p) /\ calls[p].claims # NoValue) =>
             /\ calls[p].arg.bearer.sig = Sign(JWT_SECRET, calls[p].arg.bearer.claims)
             /\ calls[p].claims = calls[p].arg.bearer.claims)
    /\ [][\A p \in Procs : (Acts(p) /\ IsLearning(p)') =>
             IF calls'[p].claims = NoValue
             THEN /\ UNCHANGED learning
                  /\ calls'[p].result.status = UNAUTHORIZED
             ELSE \A id \in DOMAIN users : (calls'[p].claims.user_id = id) =>
                      /\ RowsOfOthers(id)' = RowsOfOthers(id)
                      /\ user_achievements' = user_achievements
                      /\ (calls'[p].op = "get_my_progress") =>
                            /\ calls'[p].result.rows \subseteq user_progress
                            /\ \A r \in calls'[p].result.rows : r.user_id = id
                      /\ (calls'[p].op = "get_my_achievements") =>
                            \A d \in calls'[p].result.rows :
                               \E ua \in user_achievements :
                                  /\ ua.user_id = id
                                  /\ ua.achievement_id = d.id
                                  /\ ua.achieved_at = d.achieved_at
                      /\ (calls'[p].op = "mark_learned") =>
                            \A r \in user_progress' \ user_progress : r.user_id = id
                      /\ (calls'[p].op = "submit_test" /\ test_results' # test_results) =>
                            /\ Len(test_results') = Len(test_results) + 1
                            /\ test_results'[Len(test_results')].user_id = id]_vars

C28_Witness ==
    \E p, q, r \in Procs :
        /\ calls[p].op = "mark_learned" /\ Done(p)
        /\ calls[p].arg.bearer = AccessTokenOf(1) /\ calls[p].result.status = OK
        /\ calls[q].op = "get_my_progress" /\ Done(q) /\ p < q
        /\ calls[q].arg.bearer = AccessTokenOf(1)
        /\ calls[q].result.rows # {}
        /\ calls[r].op = "get_my_progress" /\ Done(r)
        /\ calls[r].arg.bearer = [AccessTokenOf(1) EXCEPT !.claims.user_id = 2]
        /\ calls[r].result.status = UNAUTHORIZED
        /\ \E row \in user_progress : row.user_id = 2

\* the first answer of the submission with the question's id is the correct one
FirstAnswerRight(answers, question) ==
    \E i \in 1..Len(answers) :
        /\ answers[i].question_id = question.id
        /\ \A j \in 1..(i - 1) : answers[j].question_id # question.id
        /\ answers[i].answer = question.correct_answer

\* the submit_test requests that were answered 200
Scored == {p \in Procs : calls[p].op = "submit_test" /\ Done(p) /\ calls[p].result.status = OK}

\* C29: submit_test for a test with n >= 1 questions answers total_questions = n
\* and score = the number of the test's questions whose first submitted answer
\* is the stored correct answer, 0 <= score <= n, and appends one row with the
\* user, the test and that score to test_results; for a test without questions
\* it answers 404 and test_results stays as it was.
C29_SubmitTestScore ==
    /\ [](Len(test_results) = 1 + Cardinality(Scored))
    /\ [][\A p \in Procs : (Acts(p) /\ calls'[p].op = "submit_test" /\ calls'[p].claims # NoValue) =>
             LET id == calls'[p].arg.id
                 answers == calls'[p].arg.answers
                 questions == {r \in test_items : r.test_id = id}
                 n == Cardinality(questions)
                 right == {r \in questions : FirstAnswerRight(answers, r)}
             IN  IF n = 0
                 THEN /\ calls'[p].pc = "done"
                      /\ calls'[p].result.status = NOT_FOUND
                      /\ test_results' = test_results
                 ELSE IF calls'[p].pc = "done"
                 THEN /\ calls'[p].result.status = OK
                      /\ calls'[p].result.total_questions = n
                      /\ calls'[p].result.score = Cardinality(right)
                      /\ calls'[p].result.score \in 0..n
                      /\ test_results' = Append(test_results,
                            [id |-> Len(test_results) + 1, user_id |-> calls'[p].claims.user_id,
                             test_id |-> id, score |-> Cardinality(right)])
                 ELSE test_results' = test_results]_vars

C29_Witness ==
    \E p, q, r \in Procs :
        /\ p \in Scored /\ calls[p].arg.answers = <<Answer(1, "b"), Answer(1, "a")>>
        /\ calls[p].result.score = 0
        /\ q \in Scored /\ calls[q].arg.answers = <<Answer(1, "a"), Answer(2, "b")>>
        /\ calls[q].result.score = calls[q].result.total_questions
        /\ calls[r].op = "submit_test" /\ Done(r) /\ calls[r].result.status = NOT_FOUND
        /\ Len(test_results) = Cardinality(Scored) + 1
        /\ test_results[Len(test_results)].score \in {0, calls[q].result.score}

====
